---------------------------- MODULE Spec2Model ----------------------------
(***************************************************************************)
(* Model of the HelloWorld integration                                     *)
(* (Packs/HelloWorld/Integrations/HelloWorldX2/HelloWorldX2.py).           *)
(*                                                                         *)
(* Python dicts are functions whose domain is the set of keys present, so  *)
(* that dict.get(key, default) and "key in dict" are modelled as written.  *)
(* Four specifications share the variables:                                *)
(*   Spec        main() running fetch-alerts cycles against a server that  *)
(*               may answer with any page of its alerts, or fail;          *)
(*   ServerSpec  the same cycles against a server that answers with the    *)
(*               oldest alerts at or after start_time, cycles kept running;*)
(*   FetchSpec   fetch_alerts applied to arbitrary arguments and pages;    *)
(*   CmdSpec     one invocation of main() with any command, test-module and *)
(*               fetch-alerts included, or with parameters it cannot read.  *)
(***************************************************************************)
EXTENDS Integers, Sequences, FiniteSets, TLC

VARIABLES
    server,           \* the alerts the HelloWorld server holds: id -> alert dict
    first_fetch,      \* first_fetch_timestamp computed by main() from params
    lastRun,          \* the dict the host persists (demisto.getLastRun/setLastRun)
    handed,           \* ids of the alerts the host received through demisto.alerts
    pc,               \* position of the running invocation of main(); "done" when
                      \* main() returned, "raised" when an exception left it
    command,          \* demisto.command() of the invocation
    args,             \* demisto.args() / the parameters the invocation read
    last_run,         \* fetch_alerts: the last_run argument
    last_fetch,       \* fetch_alerts: local last_fetch
    returned_alerts,  \* fetch_alerts: the page client.search_alerts returned
    next_run,         \* fetch_alerts: first component of the result
    alerts,           \* fetch_alerts: second component of the result
    requests,         \* the HTTP requests the invocation issued, in order
    responses,        \* the answers an on-demand command got to them, in order
                      \* (fetch-alerts keeps its page in returned_alerts)
    outcome,          \* "none" while running, then "ok" or the exception raised
    results           \* what the invocation passed to return_results

vars == <<server, first_fetch, lastRun, handed, pc, command, args, last_run,
          last_fetch, returned_alerts, next_run, alerts, requests, responses,
          outcome, results>>

(***************************************************************************)
(* Bounds of the model.                                                    *)
(***************************************************************************)
NumAlerts == 2        \* alerts held by the server in Spec and ServerSpec
MaxTime == 2          \* creation times and checkpoints range over 0..MaxTime

(***************************************************************************)
(* Program constants.                                                      *)
(***************************************************************************)
MAX_ALERTS_TO_FETCH == 50
HELLOWORLD_SEVERITIES == <<"Low", "Medium", "High", "Critical">>

(***************************************************************************)
(* Dict helpers.                                                           *)
(***************************************************************************)
Empty == [k \in {} |-> k]
Get(d, k, default) == IF k \in DOMAIN d THEN d[k] ELSE default
Opt(k, present, v) == IF present THEN k :> v ELSE Empty

AlertIds == 1..NumAlerts
Times == 0..MaxTime

SeqToSet(s) == {s[i] : i \in 1..Len(s)}

(***************************************************************************)
(* Client.search_alerts: only the truthy arguments become request          *)
(* parameters.  kw holds the keyword arguments that are not None.          *)
(***************************************************************************)
SearchAlertsRequestKeepsZero(kw) == [endpoint |-> "/get_alerts", params |-> kw]

SearchAlertsRequest(kw) ==
    [endpoint |-> "/get_alerts",
     params |->
        Opt("alert_status", "alert_status" \in DOMAIN kw /\ kw["alert_status"] # "",
            Get(kw, "alert_status", ""))
        @@ Opt("alert_type", "alert_type" \in DOMAIN kw /\ kw["alert_type"] # "",
               Get(kw, "alert_type", ""))
        @@ Opt("severity", "severity" \in DOMAIN kw /\ kw["severity"] # "",
               Get(kw, "severity", ""))
        @@ Opt("max_results", "max_results" \in DOMAIN kw /\ kw["max_results"] # 0,
               Get(kw, "max_results", 0))
        @@ Opt("start_time", "start_time" \in DOMAIN kw /\ kw["start_time"] # 0,
               Get(kw, "start_time", 0))]

(***************************************************************************)
(* convert_to_demisto_severity: a dict lookup, KeyError on any other key.  *)
(* AlertSeverity is the host's severity scale (CommonServerPython), with   *)
(* the values the documentation gives: 1 to 4.                             *)
(***************************************************************************)
AlertSeverity == [LOW |-> 1, MEDIUM |-> 2, HIGH |-> 3, CRITICAL |-> 4]

SeverityMapShifted ==
    [Low |-> AlertSeverity.LOW, Medium |-> AlertSeverity.HIGH,
     High |-> AlertSeverity.HIGH, Critical |-> AlertSeverity.CRITICAL]

SeverityMap ==
    [Low |-> AlertSeverity.LOW, Medium |-> AlertSeverity.MEDIUM,
     High |-> AlertSeverity.HIGH, Critical |-> AlertSeverity.CRITICAL]

convert_to_demisto_severity(severity) == SeverityMap[severity]

(***************************************************************************)
(* timestamp_to_datestring: renders a millisecond timestamp with second    *)
(* precision; json.dumps: the serialised alert.                            *)
(***************************************************************************)
timestamp_to_datestring(ms) == [datestring_of_second |-> ms \div 1000]
json_dumps(x) == [json |-> x]

(***************************************************************************)
(* ','.join(list): the CSV string.                                         *)
(***************************************************************************)
RECURSIVE Join(_)
Join(list) ==
    IF Len(list) = 0 THEN ""
    ELSE IF Len(list) = 1 THEN list[1]
    ELSE list[1] \o "," \o Join(Tail(list))

(***************************************************************************)
(* list.index(x) counted from 1; 0 stands for the ValueError.              *)
(***************************************************************************)
Index(list, x) ==
    IF \E i \in 1..Len(list) : list[i] = x
    THEN CHOOSE i \in 1..Len(list) : list[i] = x /\ \A j \in 1..(i - 1) : list[j] # x
    ELSE 0

(***************************************************************************)
(* fetch_alerts, lines 668-695: the checkpoint to use, the severity CSV    *)
(* and the search request.  p holds the keyword arguments that are not     *)
(* None among alert_status, min_severity, alert_type.                      *)
(***************************************************************************)
LastFetchIgnoresCheckpoint(lr, first_fetch_time) == first_fetch_time

LastFetch(lr, first_fetch_time) ==
    IF "last_fetch" \in DOMAIN lr THEN lr["last_fetch"] ELSE first_fetch_time

SeveritySliceAbove(min_severity) ==
    SubSeq(HELLOWORLD_SEVERITIES, Index(HELLOWORLD_SEVERITIES, min_severity) + 1,
           Len(HELLOWORLD_SEVERITIES))
SeveritySlice(min_severity) ==
    SubSeq(HELLOWORLD_SEVERITIES, Index(HELLOWORLD_SEVERITIES, min_severity),
           Len(HELLOWORLD_SEVERITIES))

FetchAlertsRaisesEarly(p) ==
    \/ "min_severity" \notin DOMAIN p
    \/ Index(HELLOWORLD_SEVERITIES, p["min_severity"]) = 0

FetchAlertsKeywords(max_results, lf, p) ==
    Opt("alert_type", "alert_type" \in DOMAIN p, Get(p, "alert_type", ""))
    @@ Opt("alert_status", "alert_status" \in DOMAIN p, Get(p, "alert_status", ""))
    @@ ("max_results" :> max_results)
    @@ ("start_time" :> lf)
    @@ ("severity" :> Join(SeveritySlice(p["min_severity"])))

FetchAlertsRequest(max_results, lf, p) ==
    SearchAlertsRequest(FetchAlertsKeywords(max_results, lf, p))

(***************************************************************************)
(* fetch_alerts, lines 697-750: the loop over the returned page.           *)
(***************************************************************************)
AlertCreatedTime(alert) == Get(alert, "created", 0)

Skipped(alert, lf) == lf # 0 /\ AlertCreatedTime(alert) <= lf

AlertRaises(alert) ==
    \/ "name" \notin DOMAIN alert
    \/ Get(alert, "severity", "Low") \notin DOMAIN SeverityMap

AlertToCreate(alert) ==
    [name |-> alert["name"],
     occurred |-> timestamp_to_datestring(AlertCreatedTime(alert) * 1000),
     rawJSON |-> json_dumps(alert),
     severity |-> convert_to_demisto_severity(Get(alert, "severity", "Low"))]

InitialLatestZero(lf) == 0
InitialLatest(lf) == lf

LatestLastWins(alert_created_time, latest_created_time) == alert_created_time
Latest(alert_created_time, latest_created_time) ==
    IF alert_created_time > latest_created_time
    THEN alert_created_time ELSE latest_created_time

RECURSIVE ProcessAlerts(_, _, _, _)
ProcessAlerts(page, lf, latest_created_time, acc) ==
    IF page = <<>>
    THEN [raised |-> FALSE,
          next_run |-> [last_fetch |-> latest_created_time],
          alerts |-> acc]
    ELSE LET alert == Head(page) IN
         IF Skipped(alert, lf)
         THEN ProcessAlerts(Tail(page), lf, latest_created_time, acc)
         ELSE IF AlertRaises(alert)
         THEN [raised |-> TRUE, next_run |-> Empty, alerts |-> <<>>]
         ELSE ProcessAlerts(Tail(page), lf,
                  Latest(AlertCreatedTime(alert), latest_created_time),
                  Append(acc, AlertToCreate(alert)))

FetchAlertsResult(page, lf) == ProcessAlerts(page, lf, InitialLatest(lf), <<>>)

(***************************************************************************)
(* main(), lines 1419-1426: the page size handed to fetch_alerts.          *)
(***************************************************************************)
MaxResults(params) ==
    IF "max_fetch" \notin DOMAIN params THEN MAX_ALERTS_TO_FETCH
    ELSE IF params["max_fetch"] = 0 \/ params["max_fetch"] > MAX_ALERTS_TO_FETCH
    THEN MAX_ALERTS_TO_FETCH
    ELSE params["max_fetch"]


(***************************************************************************)
(* The environment of the fetch-alerts cycles: the alerts of the server,   *)
(* the pages it may return and the parameters of the integration instance. *)
(* The server numbers its alerts in creation order (those without a        *)
(* 'created' field first), which loses no case: ids are only labels.  A    *)
(* page lists an alert at most once, in any order, and an alert may come   *)
(* back without its name.                                                  *)
(***************************************************************************)
MaxPage == 2          \* alerts in one page of a search response

ServerAlert(i, c) == ("alert_id" :> i) @@ Opt("created", c >= 0, c)

Populations ==
    {[i \in AlertIds |-> ServerAlert(i, c[i])] :
        c \in {f \in [AlertIds -> Times \cup {-1}] :
                  \A i, j \in AlertIds : i < j => f[i] <= f[j]}}

FirstFetchTimes == Times

WellFormed == ("name" :> "alert") @@ ("severity" :> "High")
ServerForms == {WellFormed, "severity" :> "Low"}

SeqsUpTo(S, n) == UNION {[1..k -> S] : k \in 0..n}

ServerPages ==
    {[k \in DOMAIN ids |-> server[ids[k][1]] @@ ids[k][2]] :
        ids \in {s \in SeqsUpTo(AlertIds \X ServerForms, MaxPage) :
                    \A k, l \in DOMAIN s : k # l => s[k][1] # s[l][1]}}

FetchParams ==
    {"min_severity" :> "Low",
     ("min_severity" :> "High") @@ ("max_fetch" :> 1) @@ ("alert_status" :> "ACTIVE"),
     Empty}

(***************************************************************************)
(* main(), command fetch-alerts, lines 1413-1442, one action per call that *)
(* leaves the process: the search request, its answer, demisto.setLastRun  *)
(* and demisto.alerts.  An exception anywhere ends the invocation in       *)
(* return_error (lines 1474-1476).                                         *)
(***************************************************************************)
Idle == pc \in {"idle", "done"}

return_error(cmd, message) ==
    [error |-> "Failed to execute " \o cmd \o " command.\nError:\n" \o message]

FetchStart(params) ==
    /\ Idle
    /\ command' = "fetch-alerts"
    /\ args' = params
    /\ last_run' = lastRun
    /\ returned_alerts' = <<>>
    /\ next_run' = Empty
    /\ alerts' = <<>>
    /\ IF FetchAlertsRaisesEarly(params)
       THEN /\ pc' = "done"
            /\ outcome' = "ValueError"
            /\ results' = <<return_error("fetch-alerts", "is not in list")>>
            /\ last_fetch' = LastFetch(lastRun, first_fetch)
            /\ requests' = <<>>
       ELSE /\ pc' = "requested"
            /\ outcome' = "none"
            /\ results' = <<>>
            /\ last_fetch' = LastFetch(lastRun, first_fetch)
            /\ requests' = <<FetchAlertsRequest(MaxResults(params),
                                                LastFetch(lastRun, first_fetch), params)>>
    /\ UNCHANGED <<responses, server, first_fetch, lastRun, handed>>

SearchReturns(page) ==
    /\ pc = "requested"
    /\ returned_alerts' = page
    /\ LET r == FetchAlertsResult(page, last_fetch) IN
       IF r.raised
       THEN /\ pc' = "done"
            /\ outcome' = "KeyError"
            /\ results' = <<return_error(command, "KeyError")>>
            /\ UNCHANGED <<next_run, alerts>>
       ELSE /\ pc' = "fetched"
            /\ next_run' = r.next_run
            /\ alerts' = r.alerts
            /\ UNCHANGED <<outcome, results>>
    /\ UNCHANGED <<responses, server, first_fetch, lastRun, handed, command, args, last_run,
                   last_fetch, requests>>

SearchRaisesAfterSave ==
    /\ pc = "requested"
    /\ pc' = "done"
    /\ outcome' = "DemistoException"
    /\ results' = <<return_error(command, "request failed")>>
    /\ lastRun' = [last_fetch |-> last_fetch]
    /\ UNCHANGED <<responses, server, first_fetch, handed, command, args, last_run,
                   last_fetch, returned_alerts, next_run, alerts, requests>>

SearchRaises ==
    /\ pc = "requested"
    /\ pc' = "done"
    /\ outcome' = "DemistoException"
    /\ results' = <<return_error(command, "request failed")>>
    /\ UNCHANGED <<responses, server, first_fetch, lastRun, handed, command, args, last_run,
                   last_fetch, returned_alerts, next_run, alerts, requests>>

SetLastRun ==
    /\ pc = "fetched"
    /\ lastRun' = next_run
    /\ pc' = "saved"
    /\ returned_alerts' = <<>>
    /\ UNCHANGED <<responses, server, first_fetch, handed, command, args, last_run, last_fetch,
                   next_run, alerts, requests, outcome, results>>

AlertsHandsNothing ==
    /\ pc = "saved"
    /\ handed' = handed
    /\ pc' = "done"
    /\ outcome' = "ok"
    /\ UNCHANGED <<responses, server, first_fetch, lastRun, command, args, last_run, last_fetch,
                   returned_alerts, next_run, alerts, requests, results>>

HandedNow == {alerts[k].rawJSON.json["alert_id"] : k \in DOMAIN alerts}

Alerts ==
    /\ pc = "saved"
    /\ handed' = handed \cup HandedNow
    /\ pc' = "done"
    /\ outcome' = "ok"
    /\ UNCHANGED <<responses, server, first_fetch, lastRun, command, args, last_run, last_fetch,
                   returned_alerts, next_run, alerts, requests, results>>

NoInvocation ==
    /\ pc = "idle"
    /\ command = "none"
    /\ args = Empty
    /\ last_run = Empty
    /\ last_fetch = 0
    /\ returned_alerts = <<>>
    /\ next_run = Empty
    /\ alerts = <<>>
    /\ requests = <<>>
    /\ responses = <<>>
    /\ outcome = "none"
    /\ results = <<>>

Init ==
    /\ server \in Populations
    /\ first_fetch \in FirstFetchTimes
    /\ lastRun = Empty
    /\ handed = {}
    /\ NoInvocation

Next ==
    \/ Idle /\ \E params \in FetchParams : FetchStart(params)
    \/ pc = "requested" /\ \E page \in ServerPages : SearchReturns(page)
    \/ SearchRaises
    \/ SetLastRun
    \/ Alerts

Spec == Init /\ [][Next]_vars

(***************************************************************************)
(* ServerSpec: the cycles against a server that holds well-formed alerts   *)
(* and answers a search with the oldest alerts created at or after         *)
(* start_time, at most max_results of them (every alert when the request   *)
(* carries no such parameter).  The instance keeps its parameters from one *)
(* cycle to the next, no request fails and the host keeps invoking         *)
(* fetch-alerts.                                                           *)
(***************************************************************************)
Older(a, b) ==
    \/ a["created"] < b["created"]
    \/ a["created"] = b["created"] /\ a["alert_id"] < b["alert_id"]

Matching(request) ==
    {i \in AlertIds :
        "start_time" \in DOMAIN request.params
            => server[i]["created"] >= request.params["start_time"]}

OldestFirst(ids) ==
    CHOOSE s \in [1..Cardinality(ids) -> ids] :
        \A k, l \in 1..Cardinality(ids) : k < l => Older(server[s[k]], server[s[l]])

OldestPage(request) ==
    LET ids == OldestFirst(Matching(request))
        n == IF "max_results" \in DOMAIN request.params
                  /\ request.params["max_results"] < Len(ids)
             THEN request.params["max_results"] ELSE Len(ids)
    IN [k \in 1..n |-> server[ids[k]] @@ WellFormed]

ServerParams ==
    {"min_severity" :> "Low"}
    \cup {("min_severity" :> "Low") @@ ("max_fetch" :> m) : m \in 1..MaxPage}

ServerFetchStart ==
    \E params \in ServerParams :
        /\ command = "none" \/ args = params
        /\ FetchStart(params)

ServerReturns ==
    /\ pc = "requested"
    /\ SearchReturns(OldestPage(requests[1]))

NextServer ==
    \/ ServerFetchStart
    \/ ServerReturns
    \/ SetLastRun
    \/ Alerts

ServerInit ==
    /\ Init
    /\ \A i \in AlertIds : "created" \in DOMAIN server[i]

ServerSpec == ServerInit /\ [][NextServer]_vars /\ WF_vars(NextServer)

(***************************************************************************)
(* FetchSpec: fetch_alerts (with the request main() builds for it) applied *)
(* to any stored checkpoint, any parameters and any page, whatever the     *)
(* alerts in it look like.  Pages of several alerts come with the usual    *)
(* parameters, the other parameters with the empty page.                   *)
(***************************************************************************)
Checkpoints == {Empty} \cup {[last_fetch |-> t] : t \in Times}

AnyParams ==
    {Opt("min_severity", sev # "", sev) @@ Opt("max_fetch", mf # -2, mf)
        @@ Opt("alert_status", st # "None", st) @@ Opt("alert_type", ty # "None", ty) :
        sev \in SeqToSet(HELLOWORLD_SEVERITIES) \cup {"", "Info"},
        mf \in {-2, -1, 0, 1, MAX_ALERTS_TO_FETCH, MAX_ALERTS_TO_FETCH + 1},
        st \in {"None", "", "ACTIVE"},
        ty \in {"None", "malware"}}

PageForms ==
    {WellFormed, "name" :> "alert", "severity" :> "Low",
     ("name" :> "alert") @@ ("severity" :> "Info")}

AllForms ==
    PageForms \cup {("name" :> "alert") @@ ("severity" :> sev) :
                        sev \in SeqToSet(HELLOWORLD_SEVERITIES)}

AnyAlert(k, c, form) == ("alert_id" :> k) @@ Opt("created", c >= 0, c) @@ form

AnyPages ==
    {[k \in DOMAIN s |-> AnyAlert(k, s[k][1], s[k][2])] :
        s \in SeqsUpTo((Times \cup {-1}) \X PageForms, MaxPage)
              \cup [1..1 -> (Times \cup {-1}) \X AllForms]}

FetchInit ==
    /\ server = [i \in AlertIds |-> ServerAlert(i, 0)]
    /\ first_fetch \in FirstFetchTimes
    /\ lastRun \in Checkpoints
    /\ (lastRun # Empty) => (first_fetch = 0)
    /\ handed = {}
    /\ NoInvocation

NextFetch ==
    \/ \E params \in AnyParams : pc = "idle" /\ FetchStart(params)
    \/ /\ pc = "requested"
       /\ \E page \in (IF args \in FetchParams THEN AnyPages ELSE {<<>>}) :
             SearchReturns(page)
    \/ SearchRaises

FetchSpec == FetchInit /\ [][NextFetch]_vars

(***************************************************************************)
(* CmdSpec: main() running the on-demand commands, one action per command. *)
(* An invocation is a process of its own: it starts from nothing but the   *)
(* persisted checkpoint, runs the command function and ends in             *)
(* return_results, or in return_error when an exception was raised (lines  *)
(* 1474-1476).  A command function is an operator that yields the requests *)
(* issued, the exception raised ("ok" when none) and the results; the      *)
(* answers of the server are inputs, Failed standing for a request that    *)
(* raises DemistoException.                                                *)
(***************************************************************************)
MaxThreshold == 3     \* threshold arguments range over -1..MaxThreshold
MaxScore == 4         \* server scores range over -1..MaxScore and the examples
MaxItems == 2         \* indicators, scan ids or vulns of an entity in one invocation
MaxEntities == 2      \* entities in one scan result
DefaultThreshold == 65

Failed == "error" :> "DemistoException"
IsFailed(response) == "error" \in DOMAIN response

Run(reqs, exc, res) == [requests |-> reqs, outcome |-> exc, results |-> res]
Raise(reqs, exc, message) == Run(reqs, exc, <<[error |-> message]>>)

Request(endpoint, params) == [endpoint |-> endpoint, params |-> params]

(***************************************************************************)
(* argToList: None gives the empty list (list arguments are lists here).   *)
(***************************************************************************)
argToList(a, k) == Get(a, k, <<>>)

(***************************************************************************)
(* ip_reputation_command lines 823-832, domain_reputation_command lines    *)
(* 958-967.  threshold / 2 is Python's true division, so reputation >=     *)
(* threshold / 2 compares with the exact half: 2 * reputation >= threshold.*)
(***************************************************************************)
IPScoreFloorHalf(reputation, threshold) ==
    IF reputation = 0 THEN "NONE"
    ELSE IF reputation >= threshold THEN "BAD"
    ELSE IF reputation >= threshold \div 2 THEN "SUSPICIOUS"
    ELSE "GOOD"

IPScore(reputation, threshold) ==
    IF reputation = 0 THEN "NONE"
    ELSE IF reputation >= threshold THEN "BAD"
    ELSE IF 2 * reputation >= threshold THEN "SUSPICIOUS"
    ELSE "GOOD"

DomainScoreFloorHalf(reputation, threshold) ==
    IF reputation = 0 THEN "NONE"
    ELSE IF reputation >= threshold THEN "BAD"
    ELSE IF reputation >= threshold \div 2 THEN "SUSPICIOUS"
    ELSE "GOOD"

DomainScore(reputation, threshold) ==
    IF reputation = 0 THEN "NONE"
    ELSE IF reputation >= threshold THEN "BAD"
    ELSE IF 2 * reputation >= threshold THEN "SUSPICIOUS"
    ELSE "GOOD"

IPResult(ip, ip_data, threshold) ==
    LET reputation == Get(ip_data, "score", 0) IN
    [outputs_prefix |-> "HelloWorld.IP",
     indicator |-> ip,
     score |-> IPScore(reputation, threshold),
     reputation |-> reputation]

(***************************************************************************)
(* parse_domain_date, lines 486-498.  A value of the response is tagged    *)
(* with its Python type: [str |-> s], [list |-> l], [int |-> n]; None is   *)
(* PyNone.  dateparser.parse followed by strftime is the table DateParser: *)
(* the strings it understands with their ISO-8601 rendering.               *)
(***************************************************************************)
PyNone == [none |-> TRUE]

DateParser ==
    ("2019-01-01 00:00:00" :> "2019-01-01T00:00:00.000Z")
    @@ ("1 Jan 2020" :> "2020-01-01T00:00:00.000Z")

ParseString(str) ==
    IF str \in DOMAIN DateParser THEN [str |-> DateParser[str]] ELSE PyNone

ParseDomainDateLast(domain_date) ==
    IF "str" \in DOMAIN domain_date THEN ParseString(domain_date.str)
    ELSE IF /\ "list" \in DOMAIN domain_date
            /\ Len(domain_date.list) > 0
            /\ "str" \in DOMAIN domain_date.list[Len(domain_date.list)]
    THEN ParseString(domain_date.list[Len(domain_date.list)].str)
    ELSE PyNone

parse_domain_date(domain_date) ==
    IF "str" \in DOMAIN domain_date THEN ParseString(domain_date.str)
    ELSE IF /\ "list" \in DOMAIN domain_date
            /\ Len(domain_date.list) > 0
            /\ "str" \in DOMAIN domain_date.list[1]
    THEN ParseString(domain_date.list[1].str)
    ELSE PyNone

DateFields == {"creation_date", "expiration_date", "updated_date"}

DomainDates(domain_data) ==
    [f \in DateFields \cap DOMAIN domain_data |-> parse_domain_date(domain_data[f])]

DomainResult(domain, domain_data, threshold) ==
    LET reputation == Get(domain_data, "score", 0) IN
    [outputs_prefix |-> "HelloWorld.Domain",
     indicator |-> domain,
     score |-> DomainScore(reputation, threshold),
     reputation |-> reputation,
     dates |-> DomainDates(domain_data)]

RECURSIVE IPLoop(_, _, _, _, _)
IPLoopSkipsFailure(ips, answers, threshold, reqs, command_results) ==
    IF ips = <<>> THEN Run(reqs, "ok", command_results)
    ELSE LET sent == Append(reqs, Request("/ip", [ip |-> Head(ips)])) IN
         IF IsFailed(Head(answers))
         THEN IPLoop(Tail(ips), Tail(answers), threshold, sent, command_results)
         ELSE IPLoop(Tail(ips), Tail(answers), threshold, sent,
                     Append(command_results,
                            IPResult(Head(ips), Head(answers), threshold)))

IPLoop(ips, answers, threshold, reqs, command_results) ==
    IF ips = <<>> THEN Run(reqs, "ok", command_results)
    ELSE LET sent == Append(reqs, Request("/ip", [ip |-> Head(ips)])) IN
         IF IsFailed(Head(answers))
         THEN Raise(sent, "DemistoException", "request failed")
         ELSE IPLoop(Tail(ips), Tail(answers), threshold, sent,
                     Append(command_results,
                            IPResult(Head(ips), Head(answers), threshold)))

ip_reputation_command(a, default_threshold, answers) ==
    IF Len(argToList(a, "ip")) = 0
    THEN Raise(<<>>, "ValueError", "IP(s) not specified")
    ELSE IPLoop(argToList(a, "ip"), answers,
                Get(a, "threshold", default_threshold), <<>>, <<>>)

RECURSIVE DomainLoop(_, _, _, _, _)
DomainLoopPrepends(domains, answers, threshold, reqs, command_results) ==
    IF domains = <<>> THEN Run(reqs, "ok", command_results)
    ELSE LET sent == Append(reqs, Request("/domain", [domain |-> Head(domains)])) IN
         IF IsFailed(Head(answers))
         THEN Raise(sent, "DemistoException", "request failed")
         ELSE DomainLoop(Tail(domains), Tail(answers), threshold, sent,
                         <<DomainResult(Head(domains), Head(answers), threshold)>>
                         \o command_results)

DomainLoop(domains, answers, threshold, reqs, command_results) ==
    IF domains = <<>> THEN Run(reqs, "ok", command_results)
    ELSE LET sent == Append(reqs, Request("/domain", [domain |-> Head(domains)])) IN
         IF IsFailed(Head(answers))
         THEN Raise(sent, "DemistoException", "request failed")
         ELSE DomainLoop(Tail(domains), Tail(answers), threshold, sent,
                         Append(command_results,
                                DomainResult(Head(domains), Head(answers), threshold)))

domain_reputation_command(a, default_threshold, answers) ==
    IF argToList(a, "domain") = <<>>
    THEN Raise(<<>>, "ValueError", "domain(s) not specified")
    ELSE DomainLoop(argToList(a, "domain"), answers,
                    Get(a, "threshold", default_threshold), <<>>, <<>>)

(***************************************************************************)
(* say_hello_command, lines 589-613 (Client.say_hello issues no request).  *)
(***************************************************************************)
SayHelloNoSpace(name) == "Hello" \o name

say_hello(name) == "Hello " \o name

say_hello_command(a) ==
    IF Get(a, "name", "") = ""
    THEN Raise(<<>>, "ValueError", "name not specified")
    ELSE Run(<<>>, "ok",
             <<[outputs_prefix |-> "hello",
                readable_output |-> "## " \o say_hello(a["name"]),
                outputs |-> say_hello(a["name"])]>>)

(***************************************************************************)
(* arg_to_datetime and arg_to_number: parse the argument or raise          *)
(* ValueError; a missing argument gives None.                              *)
(***************************************************************************)
ArgToDatetime == ("1970-01-01T00:00:00Z" :> 0) @@ ("1970-01-01T00:00:01Z" :> 1)
NumberStrings == {ToString(n) : n \in 0..MaxItems}
ArgToNumber(str) == CHOOSE n \in 0..MaxItems : ToString(n) = str

CreatedToDatestring(alert) ==
    IF "created" \in DOMAIN alert
    THEN [alert EXCEPT !["created"] = timestamp_to_datestring(alert["created"] * 1000)]
    ELSE alert

(***************************************************************************)
(* search_alerts_command, lines 1043-1095.  Split is str.split(','): the   *)
(* pieces of the string between its commas, empty pieces included.         *)
(***************************************************************************)
RECURSIVE Split(_)
Split(str) ==
    IF \E i \in 1..Len(str) : SubSeq(str, i, i) = ","
    THEN LET i == CHOOSE i \in 1..Len(str) :
                     /\ SubSeq(str, i, i) = ","
                     /\ \A j \in 1..(i - 1) : SubSeq(str, j, j) # ","
         IN <<SubSeq(str, 1, i - 1)>> \o Split(SubSeq(str, i + 1, Len(str)))
    ELSE <<str>>

BadSeverityFirstOnly(a) ==
    /\ Get(a, "severity", "") # ""
    /\ Split(a["severity"])[1] \notin SeqToSet(HELLOWORLD_SEVERITIES)

BadSeverity(a) ==
    /\ Get(a, "severity", "") # ""
    /\ \E k \in DOMAIN Split(a["severity"]) :
          Split(a["severity"])[k] \notin SeqToSet(HELLOWORLD_SEVERITIES)

Severities(a) ==
    IF Get(a, "severity", "") # "" THEN Split(a["severity"]) ELSE HELLOWORLD_SEVERITIES

SearchAlertsCommandKeywords(a) ==
    ("severity" :> Join(Severities(a)))
    @@ Opt("alert_status", "status" \in DOMAIN a, Get(a, "status", ""))
    @@ Opt("alert_type", "alert_type" \in DOMAIN a, Get(a, "alert_type", ""))
    @@ Opt("start_time", "start_time" \in DOMAIN a,
           ArgToDatetime[Get(a, "start_time", "")])
    @@ Opt("max_results", "max_results" \in DOMAIN a,
           ArgToNumber(Get(a, "max_results", "")))

SearchAlertsCommandRequest(a) == SearchAlertsRequest(SearchAlertsCommandKeywords(a))

search_alerts_command(a, response) ==
    IF BadSeverity(a)
    THEN Raise(<<>>, "ValueError",
               "severity must be a comma-separated value with the following options: "
               \o Join(HELLOWORLD_SEVERITIES))
    ELSE IF "start_time" \in DOMAIN a /\ a["start_time"] \notin DOMAIN ArgToDatetime
    THEN Raise(<<>>, "ValueError", "Invalid date: start_time")
    ELSE IF "max_results" \in DOMAIN a /\ a["max_results"] \notin NumberStrings
    THEN Raise(<<>>, "ValueError", "Invalid number: max_results")
    ELSE IF IsFailed(response)
    THEN Raise(<<SearchAlertsCommandRequest(a)>>, "DemistoException", "request failed")
    ELSE Run(<<SearchAlertsCommandRequest(a)>>, "ok",
             <<[outputs_prefix |-> "HelloWorld.Alert",
                outputs |-> [k \in DOMAIN response["alerts"] |->
                                CreatedToDatestring(response["alerts"][k])]]>>)

(***************************************************************************)
(* get_alert_command, lines 1116-1138.                                     *)
(***************************************************************************)
get_alert_command(a, response) ==
    IF Get(a, "alert_id", "") = ""
    THEN Raise(<<>>, "ValueError", "alert_id not specified")
    ELSE LET sent == <<Request("/get_alert_details", [alert_id |-> a["alert_id"]])>> IN
         IF IsFailed(response)
         THEN Raise(sent, "DemistoException", "request failed")
         ELSE Run(sent, "ok",
                  <<[outputs_prefix |-> "HelloWorld.Alert",
                     outputs |-> CreatedToDatestring(response)]>>)

(***************************************************************************)
(* update_alert_status_command, lines 1162-1188.                           *)
(***************************************************************************)
StatusAcceptedAnyCase(status) == status \in {"ACTIVE", "CLOSED", "active", "closed"}

StatusAccepted(status) == status \in {"ACTIVE", "CLOSED"}

UpdatedToDatestring(alert) ==
    IF "updated" \in DOMAIN alert
    THEN [alert EXCEPT !["updated"] = timestamp_to_datestring(alert["updated"] * 1000)]
    ELSE alert

update_alert_status_command(a, response) ==
    IF Get(a, "alert_id", "") = ""
    THEN Raise(<<>>, "ValueError", "alert_id not specified")
    ELSE IF "status" \notin DOMAIN a \/ ~StatusAccepted(a["status"])
    THEN Raise(<<>>, "ValueError", "status must be either ACTIVE or CLOSED")
    ELSE LET sent == <<Request("/change_alert_status",
                               [alert_id |-> a["alert_id"],
                                alert_status |-> a["status"]])>> IN
         IF IsFailed(response)
         THEN Raise(sent, "DemistoException", "request failed")
         ELSE Run(sent, "ok",
                  <<[outputs_prefix |-> "HelloWorld.Alert",
                     outputs |-> UpdatedToDatestring(response)]>>)

(***************************************************************************)
(* scan_start_command, lines 1209-1231.                                    *)
(***************************************************************************)
scan_start_command(a, response) ==
    IF Get(a, "hostname", "") = ""
    THEN Raise(<<>>, "ValueError", "hostname not specified")
    ELSE LET sent == <<Request("/start_scan", [hostname |-> a["hostname"]])>> IN
         IF IsFailed(response)
         THEN Raise(sent, "DemistoException", "request failed")
         ELSE Run(sent, "ok",
                  <<[outputs_prefix |-> "HelloWorld.Scan",
                     outputs |-> response @@ ("hostname" :> a["hostname"])]>>)

(***************************************************************************)
(* scan_status_command, lines 1252-1268.                                   *)
(***************************************************************************)
RECURSIVE ScanStatusLoop(_, _, _, _)
ScanStatusLoop(scan_id_list, answers, reqs, scan_list) ==
    IF scan_id_list = <<>>
    THEN Run(reqs, "ok", <<[outputs_prefix |-> "HelloWorld.Scan", outputs |-> scan_list]>>)
    ELSE LET sent == Append(reqs, Request("/check_scan", [scan_id |-> Head(scan_id_list)])) IN
         IF IsFailed(Head(answers))
         THEN Raise(sent, "DemistoException", "request failed")
         ELSE ScanStatusLoop(Tail(scan_id_list), Tail(answers), sent,
                             Append(scan_list, Head(answers)))

scan_status_command(a, answers) ==
    IF Len(argToList(a, "scan_id")) = 0
    THEN Raise(<<>>, "ValueError", "scan_id(s) not specified")
    ELSE ScanStatusLoop(argToList(a, "scan_id"), answers, <<>>, <<>>)

(***************************************************************************)
(* scan_results_command, lines 1293-1350: the request is issued before the *)
(* format is looked at.  The value of an entity's 'vulns' is [list |-> l]  *)
(* when it is a Python list and [str |-> s] when it is a string.  A        *)
(* Common.CVE object is the record of its fields, two objects with the     *)
(* same fields being equal and hashing alike; list(set(cves)) lists the    *)
(* distinct objects in an order the program does not control, so Unique is *)
(* the set of lists it may give and the one obtained is an input.          *)
(***************************************************************************)
CVE(id) == [id |-> id, cvss |-> "None", published |-> "None", modified |-> "None",
            description |-> "None"]

EntityCves(e) ==
    IF "vulns" \in DOMAIN e /\ "list" \in DOMAIN e["vulns"]
    THEN [k \in DOMAIN e["vulns"].list |-> CVE(e["vulns"].list[k])]
    ELSE <<>>

RECURSIVE CollectCves(_)
CollectCves(entities) ==
    IF entities = <<>> THEN <<>>
    ELSE EntityCves(Head(entities)) \o CollectCves(Tail(entities))

UniqueKeepsAll(cves) == {cves}

Unique(cves) ==
    {l \in [1..Cardinality(SeqToSet(cves)) -> SeqToSet(cves)] :
        \A i, j \in DOMAIN l : i # j => l[i] # l[j]}

DefaultFormatJson == "json"

DefaultFormat == "file"

ScanCves(response) == CollectCves(Get(response, "entities", <<>>))

scan_results_command(a, response, cves) ==
    IF Get(a, "scan_id", "") = ""
    THEN Raise(<<>>, "ValueError", "scan_id not specified")
    ELSE LET sent == <<Request("/get_scan_results", [scan_id |-> a["scan_id"]])>>
             scan_format == Get(a, "format", DefaultFormat)
         IN
         IF IsFailed(response)
         THEN Raise(sent, "DemistoException", "request failed")
         ELSE IF scan_format = "file"
         THEN Run(sent, "ok",
                  <<[file |-> a["scan_id"] \o ".json", data |-> json_dumps(response)]>>)
         ELSE IF scan_format = "json"
         THEN Run(sent, "ok",
                  <<[outputs_prefix |-> "HelloWorld.Scan", outputs |-> response]>>
                  \o [k \in DOMAIN cves |-> [indicator |-> cves[k]]])
         ELSE Raise(sent, "ValueError", "Incorrect format, must be json or file")

(***************************************************************************)
(* test_module, lines 555-563.  A failing request is the exception raised: *)
(* its class under "error" and str(e) under "text".                        *)
(***************************************************************************)
Contains(str, sub) ==
    \E i \in 1..(Len(str) - Len(sub) + 1) : SubSeq(str, i, i + Len(sub) - 1) = sub

ExceptionText(response) == Get(response, "text", "request failed")

ForbiddenAnyException(e) == Contains(ExceptionText(e), "Forbidden")
Forbidden(e) == e["error"] = "DemistoException" /\ Contains(ExceptionText(e), "Forbidden")

TestModuleKeywords(first_fetch_time) ==
    ("max_results" :> 1) @@ ("start_time" :> first_fetch_time)

test_module(first_fetch_time, response) ==
    LET sent == <<SearchAlertsRequest(TestModuleKeywords(first_fetch_time))>> IN
    IF ~IsFailed(response) THEN Run(sent, "ok", <<"ok">>)
    ELSE IF Forbidden(response)
    THEN Run(sent, "ok", <<"Authorization Error: make sure API Key is correctly set">>)
    ELSE Raise(sent, response["error"], ExceptionText(response))

(***************************************************************************)
(* The arguments and the answers the commands are run with.                *)
(***************************************************************************)
Thresholds == (-1)..MaxThreshold
SmallScores == (-1)..MaxScore
Scores == SmallScores \cup {10, 32, 33, 40, 64, 65, 70}

WithOptional(base, k, values) == {base} \cup {base @@ (k :> v) : v \in values}

ItemLists(prefix) == {[k \in 1..n |-> prefix \o ToString(k)] : n \in 0..MaxItems}

IPArgs ==
    UNION {WithOptional(b, "threshold", Thresholds) :
              b \in WithOptional(Empty, "ip", ItemLists("10.0.0."))}

DomainArgs ==
    UNION {WithOptional(b, "threshold", Thresholds) :
              b \in WithOptional(Empty, "domain", ItemLists("example"))}

(***************************************************************************)
(* The answers to a reputation request: with a threshold argument, which   *)
(* is small, the small scores; with the default threshold every score.     *)
(***************************************************************************)
ReputationResponses(a) ==
    {Failed, Empty}
    \cup {"score" :> r : r \in IF "threshold" \in DOMAIN a THEN SmallScores ELSE Scores}

DateValues ==
    LET good == [str |-> "2019-01-01 00:00:00"]
        other == [str |-> "1 Jan 2020"]
        bad == [str |-> "soon"]
    IN {good, bad, [int |-> 5], PyNone, [list |-> <<>>], [list |-> <<good>>],
        [list |-> <<bad>>], [list |-> <<[int |-> 5]>>], [list |-> <<other, bad>>],
        [list |-> <<bad, good>>]}

DateResponses ==
    {("score" :> 10) @@ ("creation_date" :> d) : d \in DateValues}
    \cup {("score" :> 10) @@ ("expiration_date" :> d) @@ ("updated_date" :> e) :
             d, e \in {[str |-> "1 Jan 2020"], [str |-> "soon"]}}

DomainResponses(a) ==
    IF "threshold" \in DOMAIN a THEN ReputationResponses(a)
    ELSE ReputationResponses(a) \cup DateResponses

Names == {"", "DBot", "Ada Lovelace"}
Ids == {"", "695b3238"}

SearchArgs ==
    UNION {UNION {UNION {WithOptional(c, "max_results", {"0", "1", "ten"}) :
                            c \in WithOptional(b, "start_time",
                                     {"1970-01-01T00:00:00Z", "1970-01-01T00:00:01Z",
                                      "yesterday-ish"})} :
                     b \in WithOptional(s, "status", {"ACTIVE", ""})
                           \cup {s @@ ("alert_type" :> "malware")}} :
              s \in WithOptional(Empty, "severity",
                       {"", "Low", "High,Critical", "Low,Urgent", "Medium, High",
                        "Critical,", "low", "Low,Low,Medium"})}

AlertResponses ==
    {Failed,
     ("alert_id" :> "695b3238") @@ ("created" :> 1) @@ ("updated" :> 2),
     "alert_id" :> "695b3238"}

SearchResponses ==
    {Failed} \cup {"alerts" :> page : page \in SeqsUpTo(AlertResponses \ {Failed}, 1)}

UpdateArgs ==
    UNION {WithOptional(b, "status", {"ACTIVE", "CLOSED", "", "active", "OPEN"}) :
              b \in WithOptional(Empty, "alert_id", Ids)}

ScanResponses ==
    {Failed, ("scan_id" :> "100") @@ ("status" :> "COMPLETE"),
     ("scan_id" :> "100") @@ ("status" :> "RUNNING")}

ScanResultsArgs ==
    UNION {WithOptional(b, "format", {"file", "json", "xml", ""}) :
              b \in WithOptional(Empty, "scan_id", {"", "100"})}

TestResponses ==
    {"alerts" :> <<>>,
     Failed,
     ("error" :> "DemistoException") @@ ("text" :> "Error in API call [403] - Forbidden"),
     ("error" :> "DemistoException") @@ ("text" :> "Error in API call [403] - forbidden"),
     ("error" :> "DemistoException") @@ ("text" :> "Error in API call [500] - Internal"),
     ("error" :> "TypeError") @@ ("text" :> "Forbidden")}

Commands ==
    {"test-module", "fetch-alerts", "ip", "domain", "helloworld-say-hello",
     "helloworld-search-alerts", "helloworld-get-alert",
     "helloworld-update-alert-status", "helloworld-scan-start",
     "helloworld-scan-status", "helloworld-scan-results"}

CveIds == {"CVE-2019-0001", "CVE-2019-0002"}

Entities ==
    {Empty, "vulns" :> [str |-> "CVE-2019-0001"]}
    \cup {"vulns" :> [list |-> l] : l \in SeqsUpTo(CveIds, MaxItems)}

ScanResultsResponses(a) ==
    {Failed, "scan_id" :> "100"}
    \cup {("scan_id" :> "100") @@ ("entities" :> es) :
             es \in SeqsUpTo(Entities, IF Get(a, "format", "file") = "json"
                                       THEN MaxEntities ELSE 0)}

(***************************************************************************)
(* main(), lines 1408-1476: the dispatch on the command.                   *)
(***************************************************************************)
FinishClearsLastRun(cmd, a, run, answers) ==
    /\ command' = cmd
    /\ args' = a
    /\ requests' = run.requests
    /\ responses' = SubSeq(answers, 1, Len(run.requests))
    /\ outcome' = run.outcome
    /\ results' = IF run.outcome = "ok" THEN run.results
                  ELSE <<return_error(cmd, run.results[1].error)>>
    /\ pc' = "done"
    /\ lastRun' = Empty
    /\ UNCHANGED <<server, first_fetch, handed, last_run, last_fetch,
                   returned_alerts, next_run, alerts>>

Finish(cmd, a, run, answers) ==
    /\ command' = cmd
    /\ args' = a
    /\ requests' = run.requests
    /\ responses' = SubSeq(answers, 1, Len(run.requests))
    /\ outcome' = run.outcome
    /\ results' = IF run.outcome = "ok" THEN run.results
                  ELSE <<return_error(cmd, run.results[1].error)>>
    /\ pc' = "done"
    /\ UNCHANGED <<server, first_fetch, lastRun, handed, last_run, last_fetch,
                   returned_alerts, next_run, alerts>>

(***************************************************************************)
(* main(), lines 1363-1385: the parameters are read before the try block.  *)
(* params['url'] raises KeyError when the instance has no url, and         *)
(* arg_to_datetime raises ValueError on a first_fetch it cannot parse: the *)
(* exception leaves main() and return_error is not called.                 *)
(***************************************************************************)
ParamsRaise ==
    /\ pc = "idle"
    /\ \E cmd \in Commands, exc \in {"KeyError", "ValueError"} :
          /\ command' = cmd
          /\ outcome' = exc
    /\ pc' = "raised"
    /\ UNCHANGED <<responses, server, first_fetch, lastRun, handed, args, last_run, last_fetch,
                   returned_alerts, next_run, alerts, requests, results>>

TestModule ==
    /\ pc = "idle"
    /\ \E response \in TestResponses :
          Finish("test-module", Empty, test_module(first_fetch, response), <<response>>)

SayHello ==
    /\ pc = "idle"
    /\ \E a \in WithOptional(Empty, "name", Names) :
          Finish("helloworld-say-hello", a, say_hello_command(a), <<>>)

IP ==
    /\ pc = "idle"
    /\ \E a \in IPArgs :
          \E answers \in [1..Len(argToList(a, "ip")) -> ReputationResponses(a)] :
             Finish("ip", a, ip_reputation_command(a, DefaultThreshold, answers), answers)

Domain ==
    /\ pc = "idle"
    /\ \E a \in DomainArgs :
          \E answers \in [1..Len(argToList(a, "domain")) -> DomainResponses(a)] :
             Finish("domain", a, domain_reputation_command(a, DefaultThreshold, answers), answers)

SearchAlerts ==
    /\ pc = "idle"
    /\ \E a \in SearchArgs, response \in SearchResponses :
          Finish("helloworld-search-alerts", a, search_alerts_command(a, response), <<response>>)

GetAlert ==
    /\ pc = "idle"
    /\ \E a \in WithOptional(Empty, "alert_id", Ids), response \in AlertResponses :
          Finish("helloworld-get-alert", a, get_alert_command(a, response), <<response>>)

UpdateAlertStatus ==
    /\ pc = "idle"
    /\ \E a \in UpdateArgs, response \in AlertResponses :
          Finish("helloworld-update-alert-status", a,
                 update_alert_status_command(a, response), <<response>>)

ScanStart ==
    /\ pc = "idle"
    /\ \E a \in WithOptional(Empty, "hostname", {"", "example.com"}),
          response \in ScanResponses :
          Finish("helloworld-scan-start", a, scan_start_command(a, response), <<response>>)

ScanStatus ==
    /\ pc = "idle"
    /\ \E a \in WithOptional(Empty, "scan_id", ItemLists("10")) :
          \E answers \in [1..Len(argToList(a, "scan_id")) -> ScanResponses] :
             Finish("helloworld-scan-status", a, scan_status_command(a, answers), answers)

ScanResults ==
    /\ pc = "idle"
    /\ \E a \in ScanResultsArgs :
          \E response \in ScanResultsResponses(a) :
          \E cves \in Unique(ScanCves(response)) :
             Finish("helloworld-scan-results", a,
                    scan_results_command(a, response, cves), <<response>>)

CmdInit ==
    /\ server = [i \in AlertIds |-> ServerAlert(i, 0)]
    /\ first_fetch \in {0, MaxTime}
    /\ lastRun \in {Empty, [last_fetch |-> MaxTime]}
    /\ (lastRun # Empty) => (first_fetch = 0)
    /\ handed = {}
    /\ NoInvocation

NextCmd ==
    \/ ParamsRaise
    \/ TestModule
    \/ pc = "idle" /\ \E params \in FetchParams : FetchStart(params)
    \/ pc = "requested" /\ \E page \in ServerPages : SearchReturns(page)
    \/ SearchRaises
    \/ SetLastRun
    \/ Alerts
    \/ SayHello
    \/ IP
    \/ Domain
    \/ SearchAlerts
    \/ GetAlert
    \/ UpdateAlertStatus
    \/ ScanStart
    \/ ScanStatus
    \/ ScanResults

CmdSpec == CmdInit /\ [][NextCmd]_vars

FairSpec == Spec /\ WF_vars(Next)

(***************************************************************************)
(* Properties of the fetch-alerts cycle.                                   *)
(***************************************************************************)
SetMax(S) == CHOOSE m \in S : \A x \in S : x <= m
CreatedSeen == {AlertCreatedTime(returned_alerts[k]) : k \in DOMAIN returned_alerts}
CreatedOf(i) == AlertCreatedTime(server[i])
HasCheckpoint(d) == "last_fetch" \in DOMAIN d

\* C1: when fetch_alerts returns, the next checkpoint is max(T, greatest creation
\* time in the page), never below T, and T when no alert of the page is newer.
C1_NextCheckpoint ==
    pc = "fetched" =>
        /\ next_run["last_fetch"] = SetMax(CreatedSeen \cup {last_fetch})
        /\ next_run["last_fetch"] >= last_fetch
        /\ (\A c \in CreatedSeen : c <= last_fetch) => next_run["last_fetch"] = last_fetch

C1_Witness ==
    /\ pc = "fetched"
    /\ last_fetch > 0
    /\ Len(returned_alerts) = 2
    /\ AlertCreatedTime(returned_alerts[1]) = last_fetch
    /\ AlertCreatedTime(returned_alerts[2]) = last_fetch + 1
    /\ next_run["last_fetch"] = last_fetch + 1
    /\ Len(alerts) = 1

\* C2: no alert returned by fetch_alerts has a creation time <= the checkpoint T,
\* for every T, T = 0 included (a missing 'created' counts as creation time 0).
C2_NoAlertAtOrBeforeCheckpoint ==
    pc = "fetched" =>
        \A k \in DOMAIN alerts : AlertCreatedTime(alerts[k].rawJSON.json) > last_fetch

\* C3: no server alert is handed to the host in more than one cycle.
C3_HandedOnce ==
    [][(pc = "saved" /\ pc' = "done") => HandedNow \cap handed = {}]_vars

\* C4: against the oldest-first server every alert created after the initial
\* checkpoint is eventually handed to the host.
C4_NoAlertMissed ==
    <>(\A i \in AlertIds : CreatedOf(i) > first_fetch => i \in handed)

\* C5: the persisted checkpoint never decreases: a value stored by setLastRun is
\* >= the value getLastRun returned at the start of that cycle.
C5_CheckpointMonotone ==
    [][lastRun' # lastRun =>
          /\ pc = "fetched"
          /\ HasCheckpoint(lastRun')
          /\ last_run = lastRun
          /\ HasCheckpoint(lastRun) => lastRun'["last_fetch"] >= lastRun["last_fetch"]]_vars

C5_Witness ==
    /\ pc = "saved"
    /\ HasCheckpoint(last_run)
    /\ lastRun["last_fetch"] > last_run["last_fetch"]

\* C6: between cycles, an alert created exactly at the stored checkpoint T and not
\* yet handed to the host is never handed to it afterwards.
C6_SameSecondDropped ==
    \A i \in AlertIds :
        []((/\ Idle
            /\ HasCheckpoint(lastRun)
            /\ CreatedOf(i) = lastRun["last_fetch"]
            /\ i \notin handed) => [](i \notin handed))

\* C8: the severity filter sent by fetch_alerts is the CSV of exactly the
\* severities at or above min_severity, in the order Low < Medium < High < Critical.
AtOrAbove(min_severity) ==
    SelectSeq(HELLOWORLD_SEVERITIES,
              LAMBDA sev : SeverityMap[sev] >= SeverityMap[min_severity])

C8_SeverityFilter ==
    (command = "fetch-alerts" /\ requests # <<>>) =>
        /\ requests[1].params["severity"] = Join(AtOrAbove(args["min_severity"]))
        /\ args["min_severity"] = "Low"
              => requests[1].params["severity"] = "Low,Medium,High,Critical"
        /\ args["min_severity"] = "Medium"
              => requests[1].params["severity"] = "Medium,High,Critical"
        /\ args["min_severity"] = "High"
              => requests[1].params["severity"] = "High,Critical"
        /\ args["min_severity"] = "Critical"
              => requests[1].params["severity"] = "Critical"

C8_Witness ==
    /\ command = "fetch-alerts"
    /\ requests # <<>>
    /\ args["min_severity"] = "Medium"
    /\ requests[1].params["severity"] = "Medium,High,Critical"

(***************************************************************************)
(* The reputation results of an invocation of ip or domain that returned,  *)
(* and the threshold the invocation ran with.                              *)
(***************************************************************************)
ReputationResults ==
    IF command \in {"ip", "domain"} /\ outcome = "ok"
    THEN {results[k] : k \in DOMAIN results}
    ELSE {}

Threshold == Get(args, "threshold", DefaultThreshold)

\* C7: in ip and domain, for every score r and threshold k, as the spec
\* states it: r = 0 is unknown (NONE), 0 < r < k/2 is benign (GOOD),
\* k/2 <= r < k is suspicious (SUSPICIOUS) and r >= k is malicious (BAD),
\* k/2 being the exact half.  The last case, stated for every r and k, also
\* covers r = 0 with k <= 0, which the first case calls unknown.
C7_BucketsAsStated ==
    \A res \in ReputationResults :
       LET r == res.reputation
           k == Threshold
       IN /\ (r = 0) => (res.score = "NONE")
          /\ (0 < r /\ 2 * r < k) => (res.score = "GOOD")
          /\ (k <= 2 * r /\ r < k) => (res.score = "SUSPICIOUS")
          /\ (r >= k) => (res.score = "BAD")

\* C7: the same buckets with the malicious case kept to nonzero scores
\* (r >= k and r # 0), so that r = 0 is unknown whatever the threshold; with
\* the default threshold 65, score 32 is benign, 33 and 64 are suspicious
\* and 65 is malicious.
C7_Buckets ==
    \A res \in ReputationResults :
       LET r == res.reputation
           k == Threshold
       IN /\ (r = 0) => (res.score = "NONE")
          /\ (0 < r /\ 2 * r < k) => (res.score = "GOOD")
          /\ (k <= 2 * r /\ r < k) => (res.score = "SUSPICIOUS")
          /\ (r >= k /\ r # 0) => (res.score = "BAD")
          /\ (k = 65 /\ r = 32) => (res.score = "GOOD")
          /\ (k = 65 /\ r \in {33, 64}) => (res.score = "SUSPICIOUS")
          /\ (k = 65 /\ r = 65) => (res.score = "BAD")

C7_Witness ==
    /\ command = "ip"
    /\ "threshold" \notin DOMAIN args
    /\ \E res \in ReputationResults : res.reputation = 32 /\ res.score = "GOOD"
    /\ \E res \in ReputationResults : res.reputation = 33 /\ res.score = "SUSPICIOUS"

\* C9: an invocation of a command that ends in an input-validation error
\* (ValueError) has issued no HTTP request.
C9_NoRequestBeforeRejection ==
    (command # "fetch-alerts" /\ outcome = "ValueError") => (requests = <<>>)

\* C10: update_alert_status_command rejects a status that is missing or is
\* not one of the literals 'ACTIVE' and 'CLOSED' with an error and without a
\* request; with a non-empty alert_id and one of the two literals it issues
\* exactly one request, to /change_alert_status, with that alert_id and status.
C10_UpdateAlertStatus ==
    (command = "helloworld-update-alert-status" /\ pc = "done") =>
       LET literal == "status" \in DOMAIN args /\ args["status"] \in {"ACTIVE", "CLOSED"} IN
       /\ ~literal => (outcome = "ValueError" /\ requests = <<>>)
       /\ (literal /\ Get(args, "alert_id", "") # "") =>
             requests = <<[endpoint |-> "/change_alert_status",
                           params |-> [alert_id |-> args["alert_id"],
                                       alert_status |-> args["status"]]]>>

C10_Witness ==
    /\ command = "helloworld-update-alert-status"
    /\ Get(args, "alert_id", "") # ""
    /\ Get(args, "status", "") = "active"
    /\ outcome = "ValueError"
    /\ requests = <<>>

(***************************************************************************)
(* A fetch-alerts invocation that ended in return_error.                   *)
(***************************************************************************)
FetchFailed == command = "fetch-alerts" /\ pc = "done" /\ outcome # "ok"

\* C11: a fetch-alerts cycle that fails (the search request raises, or the
\* processing of the returned page raises) issues no second request, leaves
\* the persisted checkpoint as the cycle read it and hands no alert to the
\* host; the checkpoint is stored only once the whole page was processed and
\* alerts are handed only by a cycle that succeeds.
C11_FailureAtomic ==
    [][/\ FetchFailed' =>
            /\ lastRun' = lastRun
            /\ lastRun' = last_run'
            /\ handed' = handed
            /\ Len(requests') <= 1
       /\ (lastRun' # lastRun) => (pc = "fetched" /\ lastRun' = next_run)
       /\ (handed' # handed) => (pc = "saved" /\ outcome' = "ok")]_vars

C11_Witness ==
    /\ FetchFailed
    /\ outcome = "KeyError"
    /\ lastRun # Empty
    /\ Len(returned_alerts) = 2
    /\ ~Skipped(returned_alerts[1], last_fetch)
    /\ ~AlertRaises(returned_alerts[1])
    /\ AlertRaises(returned_alerts[2])

\* C12: test_module issues one search request with max_results 1 and
\* start_time first_fetch_time (Client.search_alerts leaves a start_time of 0
\* out of the parameters); it returns 'ok' exactly when that request
\* succeeds, returns the authorization message when the request raises a
\* DemistoException whose text contains 'Forbidden', and lets every other
\* exception through with its class and text.
C12_TestModule ==
    (command = "test-module" /\ pc = "done") =>
       /\ requests = <<[endpoint |-> "/get_alerts",
                        params |-> ("max_results" :> 1)
                                   @@ Opt("start_time", first_fetch # 0, first_fetch)]>>
       /\ Len(responses) = 1
       /\ LET e == responses[1]
              forbidden == /\ IsFailed(e)
                           /\ e["error"] = "DemistoException"
                           /\ Contains(ExceptionText(e), "Forbidden")
          IN /\ (outcome = "ok" /\ results = <<"ok">>) <=> ~IsFailed(e)
             /\ forbidden =>
                   /\ outcome = "ok"
                   /\ results = <<"Authorization Error: make sure API Key is correctly set">>
             /\ (IsFailed(e) /\ ~forbidden) =>
                   /\ outcome = e["error"]
                   /\ results = <<return_error("test-module", ExceptionText(e))>>

C12_Witness ==
    /\ command = "test-module"
    /\ pc = "done"
    /\ first_fetch # 0
    /\ responses = <<("error" :> "DemistoException")
                     @@ ("text" :> "Error in API call [403] - Forbidden")>>
    /\ results = <<"Authorization Error: make sure API Key is correctly set">>

\* C13: every exception raised while main() runs a command, the parsing of
\* the parameters included, is reported through return_error with a message
\* naming the command; none leaves main().
C13_NoExceptionEscapes ==
    (outcome \notin {"none", "ok"}) =>
       /\ pc = "done"
       /\ Len(results) = 1
       /\ "error" \in DOMAIN results[1]
       /\ Contains(results[1]["error"], "Failed to execute " \o command \o " command.")

(***************************************************************************)
(* The commands that loop over a list argument, with the argument and the  *)
(* endpoint of each, and the commands that take one item.                  *)
(***************************************************************************)
ListArgument ==
    [ip |-> "ip", domain |-> "domain"] @@ ("helloworld-scan-status" :> "scan_id")

ListEndpoint ==
    [ip |-> "/ip", domain |-> "/domain"] @@ ("helloworld-scan-status" :> "/check_scan")

SingleRequestCommands ==
    {"helloworld-get-alert", "helloworld-update-alert-status",
     "helloworld-scan-start", "helloworld-scan-results"}

C15_OccurredAndSeverity ==
    (command = "fetch-alerts" /\ pc = "fetched") =>
       \A k \in DOMAIN alerts :
          LET raw == alerts[k].rawJSON.json
              sev == IF "severity" \in DOMAIN raw THEN raw["severity"] ELSE "Low"
          IN /\ alerts[k].occurred.datestring_of_second
                   = (IF "created" \in DOMAIN raw THEN raw["created"] ELSE 0)
             /\ alerts[k].severity \in 1..4
             /\ HELLOWORLD_SEVERITIES[alerts[k].severity] = sev

C15_Witness ==
    /\ command = "fetch-alerts"
    /\ pc = "fetched"
    /\ Len(alerts) = 2
    /\ "severity" \notin DOMAIN alerts[1].rawJSON.json
    /\ alerts[1].severity = 1
    /\ alerts[2].severity = 3
    /\ alerts[2].occurred.datestring_of_second = 2

\* C16: a fetch-alerts cycle works from the stored checkpoint whenever the
\* last run it read contains 'last_fetch' (a stored 0 included) and from
\* first_fetch_time only when it does not, and sends it as start_time; every
\* cycle that succeeds leaves a checkpoint stored, also when it returned no
\* alert, and a stored checkpoint is never removed: first_fetch_time is used
\* only by cycles that precede the first successful one.
C16_FirstFetchOnlyAtStart ==
    /\ [](command = "fetch-alerts" =>
            /\ last_fetch = (IF "last_fetch" \in DOMAIN last_run
                             THEN last_run["last_fetch"] ELSE first_fetch)
            /\ \A k \in DOMAIN requests :
                  /\ ("start_time" \in DOMAIN requests[k].params) <=> (last_fetch # 0)
                  /\ (last_fetch # 0) => (requests[k].params["start_time"] = last_fetch)
            /\ (pc = "saved" \/ (pc = "done" /\ outcome = "ok")) =>
                  "last_fetch" \in DOMAIN lastRun)
    /\ [][("last_fetch" \in DOMAIN lastRun) => ("last_fetch" \in DOMAIN lastRun')]_vars

C16_Witness ==
    /\ command = "fetch-alerts"
    /\ pc = "saved"
    /\ "last_fetch" \in DOMAIN last_run
    /\ last_run["last_fetch"] # first_fetch
    /\ last_fetch = last_run["last_fetch"]
    /\ alerts = <<>>
    /\ lastRun = last_run

(***************************************************************************)
(* The identifiers in the list-valued 'vulns' of the entities of a scan    *)
(* result.                                                                 *)
(***************************************************************************)
VulnIds(response) ==
    LET entities == Get(response, "entities", <<>>) IN
    UNION {{entities[i]["vulns"].list[k] : k \in DOMAIN entities[i]["vulns"].list} :
              i \in {j \in DOMAIN entities :
                        /\ "vulns" \in DOMAIN entities[j]
                        /\ "list" \in DOMAIN entities[j]["vulns"]}}

ScanResultsJson ==
    /\ command = "helloworld-scan-results"
    /\ pc = "done"
    /\ outcome = "ok"
    /\ Get(args, "format", "file") = "json"

C18_ScanResultsFormats ==
    (/\ command = "helloworld-scan-results"
     /\ pc = "done"
     /\ Len(responses) = 1
     /\ ~IsFailed(responses[1])) =>
       LET format == IF "format" \in DOMAIN args THEN args["format"] ELSE "file" IN
       /\ (format = "file") =>
             /\ outcome = "ok"
             /\ Len(results) = 1
             /\ DOMAIN results[1] = {"file", "data"}
             /\ results[1].file = args["scan_id"] \o ".json"
       /\ (format = "json") =>
             /\ outcome = "ok"
             /\ Len(results) >= 1
             /\ \A k \in DOMAIN results : "file" \notin DOMAIN results[k]
             /\ results[1].outputs_prefix = "HelloWorld.Scan"
       /\ (format \notin {"file", "json"}) =>
             /\ outcome = "ValueError"
             /\ results = <<return_error(command, "Incorrect format, must be json or file")>>

C18_Witness ==
    /\ command = "helloworld-scan-results"
    /\ pc = "done"
    /\ "format" \notin DOMAIN args
    /\ outcome = "ok"
    /\ results[1].file = "100.json"

(***************************************************************************)
(* The permutations of 1..n and a list rearranged by one.                  *)
(***************************************************************************)
Perms(n) == {p \in [1..n -> 1..n] : \A i, j \in 1..n : i # j => p[i] # p[j]}

Permuted(list, p) == [k \in DOMAIN p |-> list[p[k]]]

ReputationRun(cmd, a, answers) ==
    IF cmd = "ip" THEN ip_reputation_command(a, DefaultThreshold, answers)
    ELSE domain_reputation_command(a, DefaultThreshold, answers)

\* C19: ip_reputation_command and domain_reputation_command return one
\* result per input indicator, in input order; within a batch two indicators
\* with the same score get the same bucket; and running the command on any
\* permutation of the batch (the server answering each indicator as before)
\* gives the same results permuted the same way.
C19_OrderIndependent ==
    (command \in {"ip", "domain"} /\ pc = "done" /\ outcome = "ok") =>
       LET items == args[command]
           n == Len(items)
       IN /\ Len(results) = n
          /\ \A k \in 1..n : results[k].indicator = items[k]
          /\ \A k, l \in 1..n :
                (Get(responses[k], "score", 0) = Get(responses[l], "score", 0))
                   => (results[k].score = results[l].score)
          /\ \A p \in Perms(n) :
                LET run == ReputationRun(command,
                                         [args EXCEPT ![command] = Permuted(items, p)],
                                         Permuted(responses, p))
                IN /\ run.outcome = "ok"
                   /\ run.results = Permuted(results, p)

C19_Witness ==
    /\ command = "domain"
    /\ pc = "done"
    /\ outcome = "ok"
    /\ Len(results) = 2
    /\ results[1].indicator = "example1"
    /\ results[1].score = "BAD"
    /\ results[2].indicator = "example2"
    /\ results[2].score = "GOOD"

(***************************************************************************)
(* What the claim says parse_domain_date yields for a value.               *)
(***************************************************************************)
ParsedOrNothing(str) ==
    IF str \in DOMAIN DateParser THEN [str |-> DateParser[str]] ELSE [none |-> TRUE]

ExpectedDate(value) ==
    IF "str" \in DOMAIN value THEN ParsedOrNothing(value.str)
    ELSE IF "list" \in DOMAIN value
    THEN (IF value.list = <<>> THEN [none |-> TRUE]
          ELSE IF "str" \notin DOMAIN value.list[1] THEN [none |-> TRUE]
          ELSE ParsedOrNothing(value.list[1].str))
    ELSE [none |-> TRUE]

\* C20: in domain_reputation_command a date field absent from the response
\* stays absent, and a present one becomes what parse_domain_date yields:
\* the formatted date of a parseable string, nothing for an unparseable one;
\* for a list the same from its first element only, nothing when the list is
\* empty or its first element is not a string; nothing for any other value.
\* The command fails only when it has no domain or a request failed, never
\* because of a date.
C20_DomainDates ==
    (command = "domain" /\ pc = "done") =>
       /\ (outcome = "ok") <=>
             /\ Get(args, "domain", <<>>) # <<>>
             /\ \A k \in DOMAIN responses : ~IsFailed(responses[k])
       /\ (outcome = "ok") =>
             \A k \in DOMAIN results :
                /\ DOMAIN results[k].dates = DateFields \cap DOMAIN responses[k]
                /\ \A f \in DOMAIN results[k].dates :
                      results[k].dates[f] = ExpectedDate(responses[k][f])

C20_Witness ==
    /\ command = "domain"
    /\ pc = "done"
    /\ outcome = "ok"
    /\ Len(results) = 2
    /\ responses[1] = ("score" :> 10)
                      @@ ("creation_date" :> [list |-> <<[str |-> "1 Jan 2020"],
                                                         [str |-> "soon"]>>])
    /\ results[1].dates = ("creation_date" :> [str |-> "2020-01-01T00:00:00.000Z"])
    /\ responses[2] = ("score" :> 10) @@ ("creation_date" :> [str |-> "soon"])
    /\ results[2].dates = ("creation_date" :> [none |-> TRUE])

(***************************************************************************)
(* The commands other than fetch-alerts.                                   *)
(***************************************************************************)
OnDemand == Commands \ {"fetch-alerts"}

\* C21: only fetch-alerts touches the persisted checkpoint.  An invocation
\* of test-module, ip, domain, say-hello, search-alerts, get-alert,
\* update-alert-status or a scan command never calls getLastRun (it holds no
\* last run, checkpoint or next run, and the start_time test-module sends is
\* first_fetch_time, not the checkpoint) and never changes what is stored,
\* whether it returns or fails; the stored value changes only in the
\* setLastRun step of a fetch-alerts invocation.
C21_CheckpointFrame ==
    /\ [](command \in OnDemand =>
            /\ last_run = Empty
            /\ next_run = Empty
            /\ last_fetch = 0
            /\ \A k \in DOMAIN requests :
                  "start_time" \in DOMAIN requests[k].params =>
                     requests[k].params["start_time"]
                        \in {first_fetch} \cup {ArgToDatetime[t] : t \in DOMAIN ArgToDatetime})
    /\ [][/\ (command' \in OnDemand) => (lastRun' = lastRun)
          /\ (lastRun' # lastRun) => (command = "fetch-alerts" /\ pc = "fetched")]_vars

C21_Witness ==
    /\ command = "helloworld-update-alert-status"
    /\ pc = "done"
    /\ outcome = "DemistoException"
    /\ Len(requests) = 1
    /\ lastRun = [last_fetch |-> MaxTime]
    /\ last_run = Empty

\* C22: say_hello_command issues no HTTP request; for every non-empty name
\* it returns the string 'Hello <name>', and with a missing or empty name it
\* raises 'name not specified'.
C22_SayHello ==
    (command = "helloworld-say-hello" /\ pc = "done") =>
       /\ requests = <<>>
       /\ ("name" \in DOMAIN args /\ args["name"] # "") =>
             /\ outcome = "ok"
             /\ Len(results) = 1
             /\ results[1].outputs = "Hello " \o args["name"]
             /\ results[1].readable_output = "## Hello " \o args["name"]
       /\ ("name" \notin DOMAIN args \/ args["name"] = "") =>
             /\ outcome = "ValueError"
             /\ results = <<return_error(command, "name not specified")>>

C22_Witness ==
    /\ command = "helloworld-say-hello"
    /\ pc = "done"
    /\ requests = <<>>
    /\ args = [name |-> "Ada Lovelace"]
    /\ results[1].outputs = "Hello Ada Lovelace"

(***************************************************************************)
(* The CSV strings of one to three of the four severities.                 *)
(***************************************************************************)
SeverityCsvs ==
    {Join(l) : l \in SeqsUpTo(SeqToSet(HELLOWORLD_SEVERITIES), 3) \ {<<>>}}

\* C23: search_alerts_command accepts a severity argument only if every
\* comma-separated element is one of Low, Medium, High, Critical, and then
\* sends it as given; otherwise it raises before any request; when severity
\* is missing or empty the request carries all four severities.
C23_SearchSeverity ==
    (command = "helloworld-search-alerts" /\ pc = "done") =>
       LET given == "severity" \in DOMAIN args /\ args["severity"] # "" IN
       /\ (given /\ args["severity"] \notin SeverityCsvs) =>
             /\ outcome = "ValueError"
             /\ requests = <<>>
             /\ results = <<return_error(command,
                               "severity must be a comma-separated value with the "
                               \o "following options: Low,Medium,High,Critical")>>
       /\ (given /\ requests # <<>>) =>
             /\ args["severity"] \in SeverityCsvs
             /\ requests[1].params["severity"] = args["severity"]
       /\ (~given /\ requests # <<>>) =>
             requests[1].params["severity"] = "Low,Medium,High,Critical"
       /\ (given /\ args["severity"] \in SeverityCsvs
              /\ "start_time" \notin DOMAIN args /\ "max_results" \notin DOMAIN args) =>
             Len(requests) = 1

C23_Witness ==
    /\ command = "helloworld-search-alerts"
    /\ pc = "done"
    /\ Get(args, "severity", "") = "Low,Urgent"
    /\ "start_time" \notin DOMAIN args
    /\ outcome = "ValueError"
    /\ requests = <<>>

(***************************************************************************)
(* The server alerts a first fetch-alerts cycle asks for: those created at *)
(* or after first_fetch_time.                                              *)
(***************************************************************************)
MatchingAlerts == {i \in AlertIds : CreatedOf(i) >= first_fetch}

\* C24: against the oldest-first server, cycles that keep succeeding
\* eventually bring the stored checkpoint to the greatest creation time of
\* the matching alerts; it does not stay below it forever.
C24_FetchProgress ==
    <>(\/ MatchingAlerts = {}
       \/ /\ HasCheckpoint(lastRun)
          /\ lastRun["last_fetch"] >= SetMax({CreatedOf(i) : i \in MatchingAlerts}))

(***************************************************************************)
(* The server alerts behind the outputs of fetch_alerts, in output order.  *)
(***************************************************************************)
ReturnedRaw == [k \in DOMAIN alerts |-> alerts[k].rawJSON.json]

\* C25: the alerts fetch_alerts returns are exactly the alerts of the page
\* whose creation time is greater than the checkpoint, one output per such
\* alert, in the order of the page: nothing is truncated, reordered or merged.
C25_ReturnedInOrder ==
    pc = "fetched" =>
        ReturnedRaw = SelectSeq(returned_alerts,
                                LAMBDA alert : AlertCreatedTime(alert) > last_fetch)

\* C26: whatever max_fetch is configured (missing, zero, negative, within
\* range or above the limit), the max_results main() passes to fetch_alerts,
\* which fetch_alerts sends in its request, is an integer from 1 to
\* MAX_ALERTS_TO_FETCH (50).
C26_MaxResultsInRange ==
    (command = "fetch-alerts" /\ pc # "raised") =>
        /\ MaxResults(args) \in 1..MAX_ALERTS_TO_FETCH
        /\ \A k \in DOMAIN requests :
              /\ "max_results" \in DOMAIN requests[k].params
              /\ requests[k].params["max_results"] = MaxResults(args)

(***************************************************************************)
(* The steps of main() that are the calls of demisto.setLastRun and        *)
(* demisto.alerts.                                                         *)
(***************************************************************************)
SetLastRunCalled == pc = "fetched" /\ pc' = "saved"
AlertsCalled == pc = "saved" /\ pc' = "done"

\* C27: in a fetch-alerts invocation setLastRun is called only after
\* fetch_alerts returned, with its next_run, and strictly before
\* demisto.alerts, each at most once (one after the only request of the
\* invocation was answered, the other as the next and last step); every
\* alert of the page whose creation time the new checkpoint passes is among
\* the alerts fetch_alerts returned, and the call of demisto.alerts that
\* follows hands them all to the host, so the stored checkpoint advances
\* only in a cycle that also hands the alerts it passed.
C27_SetLastRunThenAlerts ==
    /\ [](pc = "fetched" =>
            /\ \A k \in DOMAIN returned_alerts :
                  AlertCreatedTime(returned_alerts[k]) > last_fetch
                     => \E l \in DOMAIN alerts : ReturnedRaw[l] = returned_alerts[k]
            /\ next_run["last_fetch"] > last_fetch
                  => \E l \in DOMAIN alerts :
                        AlertCreatedTime(ReturnedRaw[l]) = next_run["last_fetch"])
    /\ [](pc = "saved" => (lastRun = next_run /\ outcome = "none"))
    /\ [][/\ (lastRun' # lastRun) => SetLastRunCalled
          /\ (handed' # handed) => AlertsCalled
          /\ (pc' = "fetched") => (pc = "requested" /\ Len(requests) = 1)
          /\ (pc' = "saved") => (SetLastRunCalled /\ lastRun' = next_run /\ handed' = handed)
          /\ (pc = "saved") => AlertsCalled
          /\ AlertsCalled =>
                /\ command = "fetch-alerts"
                /\ lastRun' = lastRun
                /\ handed' = handed \cup {ReturnedRaw[l]["alert_id"] : l \in DOMAIN alerts}
                /\ outcome' = "ok"]_vars

C27_Witness ==
    /\ pc = "saved"
    /\ HasCheckpoint(last_run)
    /\ lastRun["last_fetch"] > last_run["last_fetch"]
    /\ Len(alerts) = 2
    /\ HandedNow \cap handed = {}

(***************************************************************************)
(* The keyword arguments (those that are not None) of the call of          *)
(* Client.search_alerts the invocation made, and the keys whose values are *)
(* strings.                                                                *)
(***************************************************************************)
SearchKeywords ==
    IF command = "fetch-alerts"
    THEN FetchAlertsKeywords(MaxResults(args), last_fetch, args)
    ELSE IF command = "test-module" THEN TestModuleKeywords(first_fetch)
    ELSE SearchAlertsCommandKeywords(args)

StringKeys == {"alert_status", "alert_type", "severity"}

=============================================================================
